---- MODULE Spec2Model ----
(***************************************************************************)
(* A model of the union-find crate: the sequential forest                  *)
(* (UnionFind<usize>, UnionFind<u32>), the borrowed sub-range view         *)
(* (BorrowedUnionFind<u32>), the cloned sub-range, and the atomic forest    *)
(* (atomic::UnionFind).                                                     *)
(*                                                                         *)
(* The build modelled is the default one (feature "unchecked" off), so     *)
(* idx! is a bounds-checked index that panics when out of range.  A panic  *)
(* ends the run: the state it leaves is kept and no further call is made.  *)
(*                                                                         *)
(* Spec       the sequential forest of either index type, its clone and    *)
(*            its borrowed view, one call per step.                        *)
(* SpecAtomic the atomic forest with one merging thread and several        *)
(*            threads in get_compress, one atomic load or store per step.  *)
(* SpecExcl   the same steps under the borrow rule of set(&mut self): no   *)
(*            get_compress is in flight while a set runs.                  *)
(* SpecWide   the sequential forest of either index type on up to WideCap  *)
(*            nodes: queries, merges of chosen pairs and growth.           *)
(* SpecNarrow the u32 forest grown up to the limit of its index type.      *)
(* SpecSnap   a u32 forest and a forest cloned from one of its windows,    *)
(*            with calls on both.                                          *)
(***************************************************************************)
EXTENDS Integers, FiniteSets, Sequences, TLC

\* ---------------------------------------------------------------- bounds
\* Largest capacity of the sequential forest that is explored.
MaxCap == 3
\* Largest n handed to extend_by.
MaxExtend == 2
\* Capacity of the atomic forest.
ACap == 3
\* Number of threads that call get_compress on the atomic forest.
NumCompressors == 2
\* Calls of get_compress made by each such thread.
MaxQueries == 1
\* Calls of set made by the merging thread.
MaxSets == 2
\* Largest capacity of the wide-index forest in the runs that reach the
\* narrow index type's limit.
WideCap == 6

\* u32::MAX scaled to an index width of 3 bits (2^3 - 1).
U32_MAX == 7

\* usize scaled to a width of 2 bits: 2^2 values.
USIZE_MOD == 4

\* The value returned by the model's operators for a call that panics.
Panic == -1

VARIABLES
    kind,    \* "usize" | "u32": which impl of UnionFind<T> the run uses
    debug,   \* whether debug_assert! is compiled in
    ptrs,    \* UnionFind::ptrs, a function 0..capacity-1 -> index
    len,     \* UnionFind::len
    alive,   \* FALSE once a call has panicked
    view,    \* the live BorrowedUnionFind: [active, s, e, own_len]
    last,    \* the last call: its name, arguments, outcome and pre-state
    snap,    \* the forest returned by subset_clone that the caller holds
    aptrs,   \* atomic::UnionFind::ptrs, one AtomicU32 per index
    alen,    \* atomic::UnionFind::len
    comp,    \* per querying thread: its position inside get_compress
    mrg,     \* the merging thread: its position inside set
    calls,   \* calls started so far: per querying thread, and of set (at 0)
    hist,    \* history of the atomic calls so far (read by no action)
    quiet    \* history since the last set returned (read by no action)

\* `x as u32`: the value kept by a cast to the narrow index type.
AsU32(x) == x % (U32_MAX + 1)

\* The cast applied to an index before it is stored in a Cell<T>: none in
\* the usize impl, `as u32` in the u32 impl.
Cast(x) == IF kind = "u32" THEN AsU32(x) ELSE x

svars == <<kind, debug, ptrs, len, alive, view, last, snap>>
avars == <<aptrs, alen, comp, mrg, calls, hist, quiet>>
vars == <<kind, debug, ptrs, len, alive, view, last, snap, aptrs, alen, comp, mrg, calls, hist, quiet>>

\* ------------------------------------------------------- sequential forest

\* UnionFind::capacity: self.ptrs.len()
Capacity(p) == Cardinality(DOMAIN p)

\* The vector built by new / new_u32: ptrs[i] = i.
NewPtrs(size) == [i \in 0..(size - 1) |-> Cast(i)]

\* UnionFind::is_root: ptrs.get(v).map(|p| p.get() == v).unwrap_or(false)
IsRoot(p, v) == IF v \in DOMAIN p THEN p[v] = v ELSE FALSE

\* The number of i in [s, e) with ptrs[i] == i.
CountRoots(p, s, e) == Cardinality({i \in s..(e - 1) : IsRoot(p, i)})

\* get that follows one pointer and stops: it returns the parent of v.
Walk_OneStep(p, v, k) ==
    IF v \notin DOMAIN p THEN Panic
    ELSE p[v]

\* The loop of get: follow ptrs from v until n == v.  k bounds the number of
\* iterations; a walk that has not ended after k steps is on a cycle.
RECURSIVE Walk(_, _, _)
Walk(p, v, k) ==
    IF v \notin DOMAIN p THEN Panic
    ELSE IF p[v] = v \/ k = 0 THEN v
    ELSE Walk(p, p[v], k - 1)

\* UnionFind::get.  Panic when idx! is out of bounds.
Get(p, v) == Walk(p, v, Capacity(p))

\* get_compress with the operands of its store exchanged: ptrs[dst] = v.
GetCompress_Swapped(p, v) ==
    LET dst == Get(p, v)
    IN  IF dst = Panic THEN [ptrs |-> p, ret |-> Panic]
        ELSE [ptrs |-> [p EXCEPT ![dst] = Cast(v)], ret |-> dst]

\* get_compress that also redirects the parent of v: two stores per call.
GetCompress_Halving(p, v) ==
    LET dst == Get(p, v)
    IN  IF dst = Panic THEN [ptrs |-> p, ret |-> Panic]
        ELSE [ptrs |-> [[p EXCEPT ![p[v]] = Cast(dst)] EXCEPT ![v] = Cast(dst)],
              ret |-> dst]

\* UnionFind::get_compress: dst = get(v); ptrs[v] = dst; dst.
\* Returns the new ptrs and dst; ptrs is untouched when get panics.
GetCompress(p, v) ==
    LET dst == Get(p, v)
    IN  IF dst = Panic THEN [ptrs |-> p, ret |-> Panic]
        ELSE [ptrs |-> [p EXCEPT ![v] = Cast(dst)], ret |-> dst]

\* Whether the bound checks at the head of set pass: assert! in the usize
\* impl, debug_assert! in the u32 impl.  Both compare with <=.
SetAsserts(p, v, to, checked) ==
    checked => (v <= Capacity(p) /\ to <= Capacity(p))

\* set that attaches the root of `to` under the root of `v`.
SetFn_Reversed(p, l, v, to, checked) ==
    IF ~SetAsserts(p, v, to, checked) THEN [ptrs |-> p, len |-> l, ok |-> FALSE]
    ELSE LET r1 == GetCompress(p, to)
         IN  IF r1.ret = Panic THEN [ptrs |-> p, len |-> l, ok |-> FALSE]
             ELSE LET r2 == GetCompress(r1.ptrs, v)
                  IN  IF r2.ret = Panic
                      THEN [ptrs |-> r1.ptrs, len |-> l, ok |-> FALSE]
                      ELSE IF r2.ret # r1.ret
                      THEN [ptrs |-> [r2.ptrs EXCEPT ![r1.ret] = Cast(r2.ret)],
                            len |-> l - 1, ok |-> TRUE]
                      ELSE [ptrs |-> r2.ptrs, len |-> l, ok |-> TRUE]

\* set that does not count the merge: self.len -= 1 is missing.
SetFn_NoDecrement(p, l, v, to, checked) ==
    IF ~SetAsserts(p, v, to, checked) THEN [ptrs |-> p, len |-> l, ok |-> FALSE]
    ELSE LET r1 == GetCompress(p, to)
         IN  IF r1.ret = Panic THEN [ptrs |-> p, len |-> l, ok |-> FALSE]
             ELSE LET r2 == GetCompress(r1.ptrs, v)
                  IN  IF r2.ret = Panic
                      THEN [ptrs |-> r1.ptrs, len |-> l, ok |-> FALSE]
                      ELSE IF r2.ret # r1.ret
                      THEN [ptrs |-> [r2.ptrs EXCEPT ![r2.ret] = Cast(r1.ret)],
                            len |-> l, ok |-> TRUE]
                      ELSE [ptrs |-> r2.ptrs, len |-> l, ok |-> TRUE]

\* UnionFind::set(v, to) on (p, l).  [ptrs, len, ok]: ok is FALSE when the
\* call panicked, and ptrs / len are then what the panic left behind.
SetFn(p, l, v, to, checked) ==
    IF ~SetAsserts(p, v, to, checked) THEN [ptrs |-> p, len |-> l, ok |-> FALSE]
    ELSE LET r1 == GetCompress(p, to)
         IN  IF r1.ret = Panic THEN [ptrs |-> p, len |-> l, ok |-> FALSE]
             ELSE LET r2 == GetCompress(r1.ptrs, v)
                  IN  IF r2.ret = Panic
                      THEN [ptrs |-> r1.ptrs, len |-> l, ok |-> FALSE]
                      ELSE IF r2.ret # r1.ret
                      THEN [ptrs |-> [r2.ptrs EXCEPT ![r2.ret] = Cast(r1.ret)],
                            len |-> l - 1, ok |-> TRUE]
                      ELSE [ptrs |-> r2.ptrs, len |-> l, ok |-> TRUE]

\* The body of the loop of compress for index i.
CompressStep(st, i, checked) ==
    LET terminal == Get(st.ptrs, i)
    IN  IF terminal # i THEN SetFn(st.ptrs, st.len, i, terminal, checked)
        ELSE st

\* compress that sweeps 0..self.len, the group count, instead of
\* 0..self.ptrs.len().
RECURSIVE CompressFrom_ByLen(_, _, _)
CompressFrom_ByLen(st, i, checked) ==
    IF i >= st.len \/ ~st.ok THEN st
    ELSE CompressFrom_ByLen(CompressStep(st, i, checked), i + 1, checked)

\* UnionFind::compress: for i in 0..ptrs.len(), from index i on.
RECURSIVE CompressFrom(_, _, _)
CompressFrom(st, i, checked) ==
    IF i >= Capacity(st.ptrs) \/ ~st.ok THEN st
    ELSE CompressFrom(CompressStep(st, i, checked), i + 1, checked)

\* The overflow check of extend_by off by one: l + n <= u32::MAX.
ExtendFits_OffByOne(k, l, n) == (k = "u32") => (l + n <= U32_MAX)

\* UnionFind::extend_by's overflow check (u32 impl only).
ExtendFits(k, l, n) == (k = "u32") => (l + n < U32_MAX)

\* extend_by that pushes i instead of l + i.
ExtendPtrs_FromZero(p, n) == [i \in 0..(Capacity(p) + n - 1) |->
                        IF i \in DOMAIN p THEN p[i] ELSE Cast(i - Capacity(p))]

\* UnionFind::extend_by: push l, l+1, ..., l+n-1.
ExtendPtrs(p, n) == [i \in 0..(Capacity(p) + n - 1) |->
                        IF i \in DOMAIN p THEN p[i] ELSE Cast(i)]

\* Whether set checks its bounds in this build.
Checked == (kind = "usize") \/ debug

\* ------------------------------------------------ sub-range clone and view

\* subset_clone that copies the pointers without subtracting the offset.
SubsetCloneFn_NoRebase(p, s, e) ==
    IF \A i \in s..(e - 1) : p[i] \in s..(e - 1)
    THEN [ok |-> TRUE,
          ptrs |-> [j \in 0..(e - s - 1) |-> p[s + j]],
          len |-> Cardinality({i \in s..(e - 1) : p[i] = i})]
    ELSE [ok |-> FALSE, ptrs |-> NewPtrs(0), len |-> 0]

\* UnionFind<u32>::subset_clone(s..e): the loop copies ptrs[old_i] - offset
\* and asserts r.contains(ptrs[old_i]) for every old_i of the range.
\* [ok, ptrs, len]: ok is FALSE when the assertion fails.
SubsetCloneFn(p, s, e) ==
    IF \A i \in s..(e - 1) : p[i] \in s..(e - 1)
    THEN [ok |-> TRUE,
          ptrs |-> [j \in 0..(e - s - 1) |-> p[s + j] - s],
          len |-> Cardinality({i \in s..(e - 1) : p[i] = i})]
    ELSE [ok |-> FALSE, ptrs |-> NewPtrs(0), len |-> 0]

\* subset without skip(r.start): the roots below the window are counted too.
SubsetFn_NoSkip(p, s, e) ==
    [active |-> TRUE, s |-> s, e |-> e,
     own_len |-> Cardinality({i \in 0..(e - 1) : p[i] = i})]

\* UnionFind<u32>::subset(s..e): own_len counts the i in [s, e) with
\* ptrs[i] == i; nothing is asserted about the range.
SubsetFn(p, s, e) ==
    [active |-> TRUE, s |-> s, e |-> e,
     own_len |-> Cardinality({i \in s..(e - 1) : p[i] = i})]

\* The loop of BorrowedUnionFind::get on local index v.  idx! panics when v
\* is outside the slice; ptrs[v] - r.start underflows when the slot points
\* below the window (a panic with overflow checks, and otherwise a wrapped
\* value that is outside the slice at the next idx!).
RECURSIVE BWalk(_, _, _, _, _)
BWalk(p, s, e, v, k) ==
    IF v < 0 \/ v >= e - s THEN Panic
    ELSE IF p[s + v] < s THEN Panic
    ELSE IF p[s + v] - s = v \/ k = 0 THEN v
    ELSE BWalk(p, s, e, p[s + v] - s, k - 1)

\* BorrowedUnionFind::get
BGet(p, s, e, v) == BWalk(p, s, e, v, e - s)

\* The view's get_compress storing the local root: r.start is not added.
BGetCompress_Local(p, s, e, v) ==
    LET dst == BGet(p, s, e, v)
    IN  IF dst = Panic THEN [ptrs |-> p, ret |-> Panic]
        ELSE [ptrs |-> [p EXCEPT ![s + v] = AsU32(dst)], ret |-> dst]

\* BorrowedUnionFind::get_compress: ptrs[v] = dst + r.start
BGetCompress(p, s, e, v) ==
    LET dst == BGet(p, s, e, v)
    IN  IF dst = Panic THEN [ptrs |-> p, ret |-> Panic]
        ELSE [ptrs |-> [p EXCEPT ![s + v] = AsU32(dst + s)], ret |-> dst]

\* The view's set without *self.len -= 1: the owner's count is left behind.
BSetFn_OwnerStale(p, l, w, v, to, checked) ==
    LET fail(q) == [ptrs |-> q, len |-> l, own_len |-> w.own_len, ok |-> FALSE]
    IN  IF checked /\ ~(v + w.s \in w.s..(w.e - 1) /\ to + w.s \in w.s..(w.e - 1))
        THEN fail(p)
        ELSE LET r1 == BGetCompress(p, w.s, w.e, to)
             IN  IF r1.ret = Panic THEN fail(p)
                 ELSE LET r2 == BGetCompress(r1.ptrs, w.s, w.e, v)
                      IN  IF r2.ret = Panic THEN fail(r1.ptrs)
                          ELSE IF r2.ret = r1.ret
                          THEN [ptrs |-> r2.ptrs, len |-> l,
                                own_len |-> w.own_len, ok |-> TRUE]
                          ELSE [ptrs |-> [r2.ptrs EXCEPT ![w.s + r2.ret] = AsU32(r1.ret + w.s)],
                                len |-> l, own_len |-> w.own_len - 1, ok |-> TRUE]

\* BorrowedUnionFind::set(v, to) through view w on (p, l): [ptrs, len,
\* own_len, ok].  *self.len is the owner's len.
BSetFn(p, l, w, v, to, checked) ==
    LET fail(q) == [ptrs |-> q, len |-> l, own_len |-> w.own_len, ok |-> FALSE]
    IN  IF checked /\ ~(v + w.s \in w.s..(w.e - 1) /\ to + w.s \in w.s..(w.e - 1))
        THEN fail(p)
        ELSE LET r1 == BGetCompress(p, w.s, w.e, to)
             IN  IF r1.ret = Panic THEN fail(p)
                 ELSE LET r2 == BGetCompress(r1.ptrs, w.s, w.e, v)
                      IN  IF r2.ret = Panic THEN fail(r1.ptrs)
                          ELSE IF r2.ret = r1.ret
                          THEN [ptrs |-> r2.ptrs, len |-> l,
                                own_len |-> w.own_len, ok |-> TRUE]
                          ELSE [ptrs |-> [r2.ptrs EXCEPT ![w.s + r2.ret] = AsU32(r1.ret + w.s)],
                                len |-> l - 1, own_len |-> w.own_len - 1, ok |-> TRUE]

\* BorrowedUnionFind::is_root: the slot's value compared with the local v.
BIsRoot(p, s, e, v) == IF v >= 0 /\ v < e - s THEN p[s + v] = v ELSE FALSE

\* ---------------------------------------------------------- atomic forest
\* Every load and every store of an AtomicU32 is one step.

Compressors == 1..NumCompressors
ANodes == 0..(ACap - 1)

CompIdle == [pc |-> "idle", q |-> 0, cur |-> 0, dst |-> 0]
MrgIdle == [pc |-> "idle", v |-> 0, to |-> 0, cur |-> 0, root_to |-> 0, root_v |-> 0]

\* The nodes reached from v by one or more parent steps.
RECURSIVE Reach(_, _, _)
Reach(p, v, k) == IF k = 0 THEN {} ELSE {p[v]} \cup Reach(p, p[v], k - 1)
Ancestors(p, v) == Reach(p, v, Capacity(p))

\* d is an ancestor of v, or v's root.
AncestorOrRoot(p, v, d) ==
    \/ d \in Ancestors(p, v) \ {v}
    \/ d \in Ancestors(p, v) /\ p[d] = d

\* hist: overlap is TRUE once a step of set ran while a get_compress of
\* another thread was in flight (or the other way round); cls maps every
\* node to the least node it has been merged with by a set that has
\* returned; stored is TRUE once a get_compress called by a querying thread
\* has stored, and good tells whether the value of the last store of any
\* get_compress (set's two included) was an ancestor of the slot, or its
\* root, at the moment of the store.
HistInit ==
    [overlap |-> FALSE, cls |-> NewPtrs(ACap), stored |-> FALSE, good |-> TRUE]

\* quiet: base is ptrs as the last set left it (or as new built it), and
\* queried the nodes whose get_compress has returned since.
QuietInit == [base |-> NewPtrs(ACap), queried |-> {}]

\* cls after set(v, to) has returned.
Merged(cls, v, to) ==
    LET m == IF cls[v] < cls[to] THEN cls[v] ELSE cls[to]
    IN  [i \in DOMAIN cls |-> IF cls[i] \in {cls[v], cls[to]} THEN m ELSE cls[i]]

AnyCompressing == \E t \in Compressors : comp[t].pc # "idle"
Merging == mrg.pc # "idle"

\* atomic::UnionFind::new(ACap)
AInit ==
    /\ aptrs = NewPtrs(ACap)
    /\ alen = ACap
    /\ comp = [t \in Compressors |-> CompIdle]
    /\ mrg = MrgIdle
    /\ calls = [t \in Compressors \cup {0} |-> 0]
    /\ hist = HistInit
    /\ quiet = QuietInit

\* The loop of atomic get that never iterates: it exits at the node given.
GetLoad_NoWalk(p, cur) == [found |-> TRUE, next |-> p[cur]]

\* One iteration of the loop of atomic get at cursor cur: the load, and
\* either the move to n or the exit with cur as the result.
GetLoad(p, cur) == [found |-> p[cur] = cur, next |-> p[cur]]

\* The store of atomic get_compress with its operands exchanged.
CompressStore_Swapped(p, v, dst) == [p EXCEPT ![dst] = v]

\* The store of atomic get_compress that stores the old parent, not dst.
CompressStore_Parent(p, v, dst) == [p EXCEPT ![v] = p[v]]

\* The store of atomic get_compress: ptrs[v] = dst.
CompressStore(p, v, dst) == [p EXCEPT ![v] = dst]

\* The store of atomic set: ptrs[root_v] = root_to.
LinkStore(p, root_v, root_to) == [p EXCEPT ![root_v] = root_to]

\* A thread calls get_compress(v).
CStart(t, v) ==
    /\ comp[t].pc = "idle"
    /\ calls[t] < MaxQueries
    /\ calls' = [calls EXCEPT ![t] = @ + 1]
    /\ comp' = [comp EXCEPT ![t] = [pc |-> "load", q |-> v, cur |-> v, dst |-> 0]]
    /\ hist' = [hist EXCEPT !.overlap = @ \/ Merging]
    /\ UNCHANGED <<aptrs, alen, mrg>>
    /\ UNCHANGED svars

\* get's load in thread t.
CLoad(t) ==
    /\ comp[t].pc = "load"
    /\ LET r == GetLoad(aptrs, comp[t].cur)
       IN  comp' = [comp EXCEPT ![t] =
                       IF r.found THEN [@ EXCEPT !.pc = "store", !.dst = comp[t].cur]
                       ELSE [@ EXCEPT !.cur = r.next]]
    /\ hist' = [hist EXCEPT !.overlap = @ \/ Merging]
    /\ UNCHANGED <<aptrs, alen, mrg, calls>>
    /\ UNCHANGED svars

\* get_compress's store in thread t; the call returns dst.
CStore(t) ==
    /\ comp[t].pc = "store"
    /\ aptrs' = CompressStore(aptrs, comp[t].q, comp[t].dst)
    /\ comp' = [comp EXCEPT ![t] = CompIdle]
    /\ hist' = [hist EXCEPT
                  !.overlap = @ \/ Merging,
                  !.stored = TRUE,
                  !.good = AncestorOrRoot(aptrs, comp[t].q, comp[t].dst)]
    /\ UNCHANGED <<alen, mrg, calls>>
    /\ UNCHANGED svars

\* The merging thread calls set(v, to): get_compress(to) comes first.
MStart(v, to) ==
    /\ mrg.pc = "idle"
    /\ calls[0] < MaxSets
    /\ calls' = [calls EXCEPT ![0] = @ + 1]
    /\ mrg' = [MrgIdle EXCEPT !.pc = "to_load", !.v = v, !.to = to, !.cur = to]
    /\ hist' = [hist EXCEPT !.overlap = @ \/ AnyCompressing]
    /\ UNCHANGED <<aptrs, alen, comp>>
    /\ UNCHANGED svars

\* A load of get, inside get_compress(to) or get_compress(v).
MLoad ==
    /\ mrg.pc \in {"to_load", "v_load"}
    /\ LET r == GetLoad(aptrs, mrg.cur)
       IN  mrg' = IF ~r.found THEN [mrg EXCEPT !.cur = r.next]
                  ELSE IF mrg.pc = "to_load"
                  THEN [mrg EXCEPT !.pc = "to_store", !.root_to = mrg.cur]
                  ELSE [mrg EXCEPT !.pc = "v_store", !.root_v = mrg.cur]
    /\ hist' = [hist EXCEPT !.overlap = @ \/ AnyCompressing]
    /\ UNCHANGED <<aptrs, alen, comp, calls>>
    /\ UNCHANGED svars

\* The set has returned: what hist keeps of it.
Returned(h) ==
    [h EXCEPT !.overlap = @ \/ AnyCompressing,
              !.cls = Merged(@, mrg.v, mrg.to)]

\* The store of get_compress(to), then the one of get_compress(v); after the
\* second, set returns when root_v == root_to.
MStore ==
    /\ mrg.pc \in {"to_store", "v_store"}
    /\ IF mrg.pc = "to_store"
       THEN /\ aptrs' = CompressStore(aptrs, mrg.to, mrg.root_to)
            /\ mrg' = [mrg EXCEPT !.pc = "v_load", !.cur = mrg.v]
            /\ hist' = [hist EXCEPT
                          !.overlap = @ \/ AnyCompressing,
                          !.good = AncestorOrRoot(aptrs, mrg.to, mrg.root_to)]
       ELSE /\ aptrs' = CompressStore(aptrs, mrg.v, mrg.root_v)
            /\ IF mrg.root_v # mrg.root_to
               THEN /\ mrg' = [mrg EXCEPT !.pc = "link"]
                    /\ hist' = [hist EXCEPT
                                  !.overlap = @ \/ AnyCompressing,
                                  !.good = AncestorOrRoot(aptrs, mrg.v, mrg.root_v)]
               ELSE /\ mrg' = MrgIdle
                    /\ hist' = [Returned(hist) EXCEPT
                                  !.good = AncestorOrRoot(aptrs, mrg.v, mrg.root_v)]
    /\ UNCHANGED <<alen, comp, calls>>
    /\ UNCHANGED svars

\* ptrs[root_v] = root_to; self.len -= 1; set returns.  The subtraction
\* panics at 0 when overflow checks are compiled in, and wraps otherwise.
MLink ==
    /\ mrg.pc = "link"
    /\ aptrs' = LinkStore(aptrs, mrg.root_v, mrg.root_to)
    /\ IF alen = 0 /\ debug
       THEN /\ mrg' = [mrg EXCEPT !.pc = "panicked"]
            /\ hist' = [hist EXCEPT !.overlap = @ \/ AnyCompressing]
            /\ UNCHANGED alen
       ELSE /\ alen' = (alen - 1) % USIZE_MOD
            /\ mrg' = MrgIdle
            /\ hist' = Returned(hist)
    /\ UNCHANGED <<comp, calls>>
    /\ UNCHANGED svars

NoView == [active |-> FALSE, s |-> 0, e |-> 0, own_len |-> 0]
NoSnap == [ptrs |-> NewPtrs(0), len |-> 0]

Call(op, a, b, ok, ret, out) ==
    [op |-> op, a |-> a, b |-> b, ok |-> ok, ret |-> ret,
     pre |-> ptrs, prelen |-> len, preown |-> view.own_len, out |-> out]

NoCall ==
    [op |-> "new", a |-> -1, b |-> -1, ok |-> TRUE, ret |-> -1,
     pre |-> NewPtrs(0), prelen |-> 0, preown |-> 0, out |-> NoSnap]

\* UnionFind::new(size) / UnionFind::new_u32(size)
Init ==
    /\ kind \in {"usize", "u32"}
    /\ debug \in (IF kind = "u32" THEN BOOLEAN ELSE {TRUE})
    /\ \E size \in 0..MaxCap :
          /\ (kind = "u32") => (size < U32_MAX)
          /\ ptrs = NewPtrs(size)
          /\ len = size
    /\ alive = TRUE
    /\ view = NoView
    /\ last = NoCall
    /\ snap = NoSnap
    /\ AInit

Owner == alive /\ ~view.active

DoGet(v) ==
    /\ Owner
    /\ LET r == Get(ptrs, v)
       IN  /\ last' = Call("get", v, -1, r # Panic, r, NoSnap)
           /\ alive' = (r # Panic)
    /\ UNCHANGED <<kind, debug, ptrs, len, view, snap, aptrs, alen, comp, mrg, calls, hist, quiet>>

DoGetCompress(v) ==
    /\ Owner
    /\ LET r == GetCompress(ptrs, v)
       IN  /\ ptrs' = r.ptrs
           /\ last' = Call("get_compress", v, -1, r.ret # Panic, r.ret, NoSnap)
           /\ alive' = (r.ret # Panic)
    /\ UNCHANGED <<kind, debug, len, view, snap, aptrs, alen, comp, mrg, calls, hist, quiet>>

DoSet(v, to) ==
    /\ Owner
    /\ LET r == SetFn(ptrs, len, v, to, Checked)
       IN  /\ ptrs' = r.ptrs
           /\ len' = r.len
           /\ alive' = r.ok
           /\ last' = Call("set", v, to, r.ok, -1, NoSnap)
    /\ UNCHANGED <<kind, debug, view, snap, aptrs, alen, comp, mrg, calls, hist, quiet>>

DoCompress ==
    /\ Owner
    /\ LET r == CompressFrom([ptrs |-> ptrs, len |-> len, ok |-> TRUE], 0, Checked)
       IN  /\ ptrs' = r.ptrs
           /\ len' = r.len
           /\ alive' = r.ok
           /\ last' = Call("compress", -1, -1, r.ok, -1, NoSnap)
    /\ UNCHANGED <<kind, debug, view, snap, aptrs, alen, comp, mrg, calls, hist, quiet>>

DoExtendBy(n) ==
    /\ Owner
    /\ IF ExtendFits(kind, Capacity(ptrs), n)
       THEN /\ ptrs' = ExtendPtrs(ptrs, n)
            /\ len' = len + n
            /\ alive' = TRUE
            /\ last' = Call("extend_by", n, -1, TRUE, -1, NoSnap)
       ELSE /\ alive' = FALSE
            /\ last' = Call("extend_by", n, -1, FALSE, -1, NoSnap)
            /\ UNCHANGED <<ptrs, len>>
    /\ UNCHANGED <<kind, debug, view, snap, aptrs, alen, comp, mrg, calls, hist, quiet>>

\* UnionFind<u32>::subset_clone(s..e).  What becomes of the returned forest
\* (snap) is the caller's choice.
DoSubsetClone(s, e) ==
    /\ Owner
    /\ kind = "u32"
    /\ LET r == SubsetCloneFn(ptrs, s, e)
       IN  /\ last' = Call("subset_clone", s, e, r.ok, -1, [ptrs |-> r.ptrs, len |-> r.len])
           /\ alive' = r.ok
    /\ UNCHANGED <<kind, debug, ptrs, len, view, aptrs, alen, comp, mrg, calls, hist, quiet>>

\* UnionFind<u32>::subset(s..e): the view borrows the forest until dropped.
DoSubset(s, e) ==
    /\ Owner
    /\ kind = "u32"
    /\ view' = SubsetFn(ptrs, s, e)
    /\ last' = Call("subset", s, e, TRUE, -1, NoSnap)
    /\ UNCHANGED <<kind, debug, ptrs, len, alive, snap, aptrs, alen, comp, mrg, calls, hist, quiet>>

Borrowed == alive /\ view.active

DoViewGet(j) ==
    /\ Borrowed
    /\ LET r == BGet(ptrs, view.s, view.e, j)
       IN  /\ last' = Call("view_get", j, -1, r # Panic, r, NoSnap)
           /\ alive' = (r # Panic)
    /\ UNCHANGED <<kind, debug, ptrs, len, view, snap, aptrs, alen, comp, mrg, calls, hist, quiet>>

DoViewGetCompress(j) ==
    /\ Borrowed
    /\ LET r == BGetCompress(ptrs, view.s, view.e, j)
       IN  /\ ptrs' = r.ptrs
           /\ last' = Call("view_get_compress", j, -1, r.ret # Panic, r.ret, NoSnap)
           /\ alive' = (r.ret # Panic)
    /\ UNCHANGED <<kind, debug, len, view, snap, aptrs, alen, comp, mrg, calls, hist, quiet>>

DoViewSet(j, k) ==
    /\ Borrowed
    /\ LET r == BSetFn(ptrs, len, view, j, k, debug)
       IN  /\ ptrs' = r.ptrs
           /\ len' = r.len
           /\ view' = [view EXCEPT !.own_len = r.own_len]
           /\ alive' = r.ok
           /\ last' = Call("view_set", j, k, r.ok, -1, NoSnap)
    /\ UNCHANGED <<kind, debug, snap, aptrs, alen, comp, mrg, calls, hist, quiet>>

DoViewIsRoot(j) ==
    /\ Borrowed
    /\ last' = Call("view_is_root", j, -1, TRUE,
                    IF BIsRoot(ptrs, view.s, view.e, j) THEN 1 ELSE 0, NoSnap)
    /\ UNCHANGED <<kind, debug, ptrs, len, alive, view, snap, aptrs, alen, comp, mrg, calls, hist, quiet>>

\* The view goes out of scope; the forest is the owner's again.
DoViewDrop ==
    /\ Borrowed
    /\ view' = NoView
    /\ last' = Call("view_drop", -1, -1, TRUE, -1, NoSnap)
    /\ UNCHANGED <<kind, debug, ptrs, len, alive, snap, aptrs, alen, comp, mrg, calls, hist, quiet>>

\* ----- calls on the forest returned by subset_clone (a UnionFind<u32>)

\* UnionFind<u32>::get_compress on the snapshot.
DoSnapGetCompress(j) ==
    /\ Owner
    /\ LET r == GetCompress(snap.ptrs, j)
       IN  /\ snap' = [snap EXCEPT !.ptrs = r.ptrs]
           /\ last' = Call("snap_get_compress", j, -1, r.ret # Panic, r.ret, NoSnap)
           /\ alive' = (r.ret # Panic)
    /\ UNCHANGED <<kind, debug, ptrs, len, view, aptrs, alen, comp, mrg, calls, hist, quiet>>

\* A set on the snapshot that counts the merge in the source's len as well,
\* as a set through a borrowed view does.
DoSnapSet_Shared(j, k) ==
    /\ Owner
    /\ LET r == SetFn(snap.ptrs, snap.len, j, k, debug)
       IN  /\ snap' = [ptrs |-> r.ptrs, len |-> r.len]
           /\ len' = len - (snap.len - r.len)
           /\ alive' = r.ok
           /\ last' = Call("snap_set", j, k, r.ok, -1, NoSnap)
    /\ UNCHANGED <<kind, debug, ptrs, view, aptrs, alen, comp, mrg, calls, hist, quiet>>

\* UnionFind<u32>::set on the snapshot.
DoSnapSet(j, k) ==
    /\ Owner
    /\ LET r == SetFn(snap.ptrs, snap.len, j, k, debug)
       IN  /\ snap' = [ptrs |-> r.ptrs, len |-> r.len]
           /\ alive' = r.ok
           /\ last' = Call("snap_set", j, k, r.ok, -1, NoSnap)
    /\ UNCHANGED <<kind, debug, ptrs, len, view, aptrs, alen, comp, mrg, calls, hist, quiet>>

Next ==
    \/ \E v \in 0..(MaxCap - 1) : v < Capacity(ptrs) /\ DoGet(v)
    \/ \E v \in 0..(MaxCap - 1) : v < Capacity(ptrs) /\ DoGetCompress(v)
    \/ \E v, to \in 0..(MaxCap + 1) :
          v <= Capacity(ptrs) + 1 /\ to <= Capacity(ptrs) + 1 /\ DoSet(v, to)
    \/ DoCompress
    \/ \E n \in 0..MaxExtend : Capacity(ptrs) + n <= MaxCap /\ DoExtendBy(n)
    \/ \E s, e \in 0..MaxCap :
          s <= e /\ e <= Capacity(ptrs) /\ DoSubsetClone(s, e) /\ UNCHANGED snap
    \/ \E s, e \in 0..MaxCap : s <= e /\ e <= Capacity(ptrs) /\ DoSubset(s, e)
    \/ \E j \in 0..(MaxCap - 1) : j < view.e - view.s /\ DoViewGet(j)
    \/ \E j \in 0..(MaxCap - 1) : j < view.e - view.s /\ DoViewGetCompress(j)
    \/ \E j, k \in 0..(MaxCap - 1) :
          j < view.e - view.s /\ k < view.e - view.s /\ DoViewSet(j, k)
    \/ \E j \in 0..(MaxCap - 1) : j < view.e - view.s /\ DoViewIsRoot(j)
    \/ DoViewDrop

Spec == Init /\ [][Next]_vars

\* The assertion of new_u32: len < u32::MAX.  new has none.
NewFits(k, size) == (k = "u32") => (size < U32_MAX)

\* UnionFind::new(size) / UnionFind::new_u32(size) for sizes up to the first
\* one new_u32 refuses.  A refused construction leaves no forest.
InitWide ==
    /\ kind \in {"usize", "u32"}
    /\ debug \in (IF kind = "u32" THEN BOOLEAN ELSE {TRUE})
    /\ \E size \in 0..(WideCap + 1) :
          /\ (kind = "usize") => (size <= WideCap)
          /\ IF NewFits(kind, size)
             THEN /\ ptrs = NewPtrs(size)
                  /\ len = size
                  /\ alive = TRUE
                  /\ last = [NoCall EXCEPT !.a = size]
             ELSE /\ ptrs = NewPtrs(0)
                  /\ len = 0
                  /\ alive = FALSE
                  /\ last = [NoCall EXCEPT !.a = size, !.ok = FALSE]
    /\ view = NoView
    /\ snap = NoSnap
    /\ AInit

\* The distances to - v of the pairs handed to set(v, to) in the wide runs.
WideStrides == {1, 3}

\* The queries and the calls that store parent values, on forests of up to
\* WideCap nodes.
\* The u32 forest is bounded by its own assertions, the usize one by WideCap.
NextWide ==
    \/ \E v \in 0..(WideCap - 1) : v < Capacity(ptrs) /\ DoGet(v)
    \/ \E v \in 0..(WideCap - 1) : v < Capacity(ptrs) /\ DoGetCompress(v)
    \/ \E v \in 0..(WideCap - 1), d \in WideStrides :
          v + d < Capacity(ptrs) /\ DoSet(v, v + d)
    \/ \E n \in 0..MaxExtend :
          ((kind = "usize") => (Capacity(ptrs) + n <= WideCap)) /\ DoExtendBy(n)

SpecWide == InitWide /\ [][NextWide]_vars

\* The u32 forest alone, grown until new_u32 and extend_by refuse.
InitNarrow == InitWide /\ kind = "u32"

NextNarrow ==
    \/ \E v \in 0..(U32_MAX - 1) : v < Capacity(ptrs) /\ DoGetCompress(v)
    \/ \E v \in 0..(U32_MAX - 1), d \in WideStrides :
          v + d < Capacity(ptrs) /\ DoSet(v, v + d)
    \/ \E n \in 0..MaxExtend : DoExtendBy(n)

SpecNarrow == InitNarrow /\ [][NextNarrow]_vars

\* A u32 forest and the snapshot its caller keeps.  Every index handed to
\* set is in range, so the build with debug_assert! stands for both.
InitSnap == Init /\ kind = "u32" /\ debug

\* Calls on the source and on the kept snapshot, in any order.  The
\* snapshot is taken of a window of fewer than MaxCap nodes.
NextSnap ==
    \/ \E v \in 0..(MaxCap - 1) : v < Capacity(ptrs) /\ DoGetCompress(v)
    \/ \E v, to \in 0..(MaxCap - 1) :
          v < Capacity(ptrs) /\ to < Capacity(ptrs) /\ DoSet(v, to)
    \/ \E n \in 0..MaxExtend : Capacity(ptrs) + n <= MaxCap /\ DoExtendBy(n)
    \/ \E s, e \in 0..MaxCap :
          /\ s <= e /\ e <= Capacity(ptrs) /\ e - s < MaxCap
          /\ DoSubsetClone(s, e)
          /\ snap' = IF last'.ok THEN last'.out ELSE snap
    \/ \E j \in 0..(MaxCap - 1) : j < Capacity(snap.ptrs) /\ DoSnapGetCompress(j)
    \/ \E j, k \in 0..(MaxCap - 1) :
          j < Capacity(snap.ptrs) /\ k < Capacity(snap.ptrs) /\ DoSnapSet(j, k)

SpecSnap == InitSnap /\ [][NextSnap]_vars

\* The atomic forest alone: the sequential forest is left unused.
InitAtomic ==
    /\ kind = "u32"
    /\ debug \in BOOLEAN
    /\ ptrs = NewPtrs(0)
    /\ len = 0
    /\ alive = TRUE
    /\ view = NoView
    /\ last = NoCall
    /\ snap = NoSnap
    /\ AInit

\* The discipline the spec documents: one merging thread, and any number of
\* threads in get_compress at the same time.
ANext ==
    \/ \E t \in Compressors, v \in ANodes : CStart(t, v) /\ UNCHANGED quiet
    \/ \E t \in Compressors : CLoad(t) /\ UNCHANGED quiet
    \/ \E t \in Compressors : CStore(t) /\ UNCHANGED quiet
    \/ \E v, to \in ANodes : MStart(v, to) /\ UNCHANGED quiet
    \/ MLoad /\ UNCHANGED quiet
    \/ MStore /\ UNCHANGED quiet
    \/ MLink /\ UNCHANGED quiet

SpecAtomic == InitAtomic /\ [][ANext]_vars

\* quiet after a step of the merging thread.
QuietAfterMerge == IF mrg'.pc = "idle" THEN [base |-> aptrs', queried |-> {}] ELSE quiet

\* What the borrow of set(&mut self) allows: a set starts only when no
\* get_compress is in flight, and no get_compress starts during a set.
XNext ==
    \/ \E t \in Compressors, v \in ANodes :
          ~Merging /\ CStart(t, v) /\ UNCHANGED quiet
    \/ \E t \in Compressors : CLoad(t) /\ UNCHANGED quiet
    \/ \E t \in Compressors :
          CStore(t) /\ quiet' = [quiet EXCEPT !.queried = @ \cup {comp[t].q}]
    \/ \E v, to \in ANodes : ~AnyCompressing /\ MStart(v, to) /\ UNCHANGED quiet
    \/ MLoad /\ UNCHANGED quiet
    \/ MStore /\ quiet' = QuietAfterMerge
    \/ MLink /\ quiet' = QuietAfterMerge

SpecExcl == InitAtomic /\ [][XNext]_vars

\* ================================================================ claims

\* Every slot holds an index of the array, and every walk ends at a root.
Forest(p) == \A i \in DOMAIN p : p[i] \in DOMAIN p /\ IsRoot(p, Get(p, i))

\* Some node is two or more steps away from its root.
HasChain(p) == \E i \in DOMAIN p : p[i] # i /\ p[p[i]] # p[i]

SetReturned == last.op = "set" /\ last.ok

\* 1 when a and b had different roots in p, and 0 otherwise.
Joined(p, a, b) == IF Get(p, a) # Get(p, b) THEN 1 ELSE 0

\* C1: after set(a, b) has returned, get(a) == get(b), and that root is the
\* one get(b) had before the call.
C1_MergeRootedAtDestination ==
    SetReturned =>
        /\ Get(ptrs, last.a) = Get(ptrs, last.b)
        /\ Get(ptrs, last.b) = Get(last.pre, last.b)

\* A set that joined two groups, its second argument not being a root.
C1_Witness ==
    /\ SetReturned
    /\ Get(last.pre, last.a) # Get(last.pre, last.b)
    /\ last.pre[last.b] # last.b

\* C2: len is the number of i with ptrs[i] == i, and a set lowers len by 1
\* when it joined two groups and by 0 when it did not.
C2_LenCountsRoots ==
    /\ len = CountRoots(ptrs, 0, Capacity(ptrs))
    /\ SetReturned => len = last.prelen - Joined(last.pre, last.a, last.b)

\* A set that joined the last two groups and left a chain.
C2_Witness ==
    /\ SetReturned
    /\ len = last.prelen - 1
    /\ len < Capacity(ptrs) - 1
    /\ HasChain(ptrs)

\* C3: the parent array is a forest: every walk from an index below
\* capacity ends at a root, so the only cycles are the roots' self-loops.
C3_ParentsFormForest == Forest(ptrs)

\* A set that left a node two steps away from its root.
C3_Witness == SetReturned /\ HasChain(ptrs) /\ Capacity(ptrs) >= 3

\* ----- atomic forest

AllIdle == ~Merging /\ ~AnyCompressing

\* C4 as stated: with one merging thread and get_compress running in other
\* threads at the same time, the parent array is a forest in every state.
C4_ForestUnderConcurrentMerge == Forest(aptrs)

\* C4 as amended: the parent array is a forest in every state of a run in
\* which no step of set overlapped a get_compress in flight.
C4_ForestUnderExclusiveMerge == ~hist.overlap => Forest(aptrs)

\* Two get_compress in flight at once, after a set has returned, no overlap.
C4_Witness ==
    /\ ~hist.overlap
    /\ \A t \in Compressors : comp[t].pc # "idle"
    /\ \E i \in ANodes : hist.cls[i] # i
    /\ \E i \in ANodes : aptrs[i] # i

\* Every node has the root of the node it was merged with.
MergesKept == \A i \in ANodes : Get(aptrs, i) = Get(aptrs, hist.cls[i])

\* C5 as stated: every store of a get_compress(v) writes an ancestor of v,
\* or v's root, and once a set has returned its two arguments have the same
\* root whenever no call is in flight.
C5_MergeNeverUndone == hist.good /\ (AllIdle => MergesKept)

\* C5 as amended: the same, in a run in which no step of set overlapped a
\* get_compress in flight.
C5_MergeKeptUnderExclusiveMerge ==
    ~hist.overlap => (hist.good /\ (AllIdle => MergesKept))

\* A get_compress has stored after a set joined two groups; all is idle.
C5_Witness ==
    /\ ~hist.overlap
    /\ hist.stored
    /\ AllIdle
    /\ \E i \in ANodes : hist.cls[i] # i
    /\ \A t \in Compressors : calls[t] > 0

\* ptrs after get_compress has returned for the nodes of q, from base b.
Compressed(b, q) == [i \in DOMAIN b |-> IF i \in q THEN Get(b, i) ELSE b[i]]

\* C6: while no set runs, concurrent get_compress calls leave every node's
\* root unchanged, each returns the root a sequential call would return, and
\* once all have returned every queried node points at its root and every
\* other slot is as it was.
C6_CompressionsCommute ==
    ~Merging =>
        /\ \A i \in ANodes : Get(aptrs, i) = Get(quiet.base, i)
        /\ \A t \in Compressors :
              comp[t].pc = "store" => comp[t].dst = Get(quiet.base, comp[t].q)
        /\ ~AnyCompressing => aptrs = Compressed(quiet.base, quiet.queried)

\* Two get_compress calls about to store, one of them shortening a chain.
C6_Witness ==
    /\ ~Merging
    /\ \A t \in Compressors : comp[t].pc = "store"
    /\ \E t \in Compressors : quiet.base[comp[t].q] # comp[t].dst
    /\ \E t, u \in Compressors : comp[t].q # comp[u].q

\* ----- sub-range view and clone

ViewSetReturned == last.op = "view_set" /\ last.ok

\* C7: through a view, len and the view's curr_len count the roots of the
\* whole array and of the window, and a view set lowers both by 1 when it
\* joined two groups and by 0 when it did not.
C7_ViewSetCountsBoth ==
    view.active =>
        /\ len = CountRoots(ptrs, 0, Capacity(ptrs))
        /\ view.own_len = CountRoots(ptrs, view.s, view.e)
        /\ ViewSetReturned =>
              LET d == Joined(last.pre, view.s + last.a, view.s + last.b)
              IN  len = last.prelen - d /\ view.own_len = last.preown - d

\* A view set that joined two groups of a window that starts above 0.
C7_Witness ==
    /\ view.active
    /\ ViewSetReturned
    /\ view.s > 0
    /\ view.own_len = last.preown - 1
    /\ len = last.prelen - 1

\* The window [s, e) is closed in the spec's sense: every element's root is
\* inside it.
ClosedByRoots(p, s, e) == \A i \in s..(e - 1) : Get(p, i) \in s..(e - 1)

\* Every element's parent is inside the window.
ClosedByParents(p, s, e) == \A i \in s..(e - 1) : p[i] \in s..(e - 1)

WindowCall == last.op \in {"subset", "subset_clone"}

\* curr_len and capacity of what the last subset / subset_clone returned.
ReportedLen == IF last.op = "subset" THEN view.own_len ELSE last.out.len
ReportedCap ==
    IF last.op = "subset" THEN view.e - view.s ELSE Capacity(last.out.ptrs)

WindowReport ==
    /\ last.ok
    /\ ReportedLen = CountRoots(last.pre, last.a, last.b)
    /\ ReportedCap = last.b - last.a

\* C8 as stated: over a window closed in the spec's sense, subset and
\* subset_clone complete and report the window's roots and size.
C8_ClosedWindowAccepted ==
    (WindowCall /\ ClosedByRoots(last.pre, last.a, last.b)) => WindowReport

\* C8 as amended: over a window in which every element's parent lies inside
\* the window, subset and subset_clone complete and report the window's
\* roots and size.
C8_ParentClosedWindowAccepted ==
    (WindowCall /\ ClosedByParents(last.pre, last.a, last.b)) => WindowReport

\* A subset_clone of a window above 0 that holds a non-root.
C8_Witness ==
    /\ last.op = "subset_clone"
    /\ last.ok
    /\ last.a > 0
    /\ last.out.len < last.b - last.a

\* C9: over a window that is not closed (an element's root lies outside),
\* subset and subset_clone fail.
C9_OpenWindowRejected ==
    (WindowCall /\ ~ClosedByRoots(last.pre, last.a, last.b)) => ~last.ok

\* C10: a set with an index >= capacity fails and leaves ptrs and len as
\* they were.
C10_FailedSetChangesNothing ==
    (last.op = "set" /\ (last.a >= Capacity(last.pre) \/ last.b >= Capacity(last.pre)))
        => (~last.ok /\ ptrs = last.pre /\ len = last.prelen)

\* ----- growth

ExtendReturned == last.op = "extend_by" /\ last.ok

\* C11: after extend_by(n) on capacity c and count l, capacity is c + n, len
\* is l + n, every index of [c, c + n) is its own parent and root, and every
\* slot below c holds what it held.
C11_ExtendByGrows ==
    ExtendReturned =>
        LET c == Capacity(last.pre)
            n == last.a
        IN  /\ Capacity(ptrs) = c + n
            /\ len = last.prelen + n
            /\ \A i \in c..(c + n - 1) :
                  ptrs[i] = i /\ IsRoot(ptrs, i) /\ Get(ptrs, i) = i
            /\ \A i \in 0..(c - 1) : ptrs[i] = last.pre[i]

\* An extend_by that added a node to a forest that holds a merged pair.
C11_Witness ==
    /\ ExtendReturned
    /\ last.a >= 1
    /\ \E i \in DOMAIN last.pre : last.pre[i] # i

\* ----- snapshot

SourceCalls == {"set", "get_compress", "extend_by"}
SnapCalls == {"snap_set", "snap_get_compress"}

C13_CloneIsRebasedWindow ==
    (last.op = "subset_clone" /\ last.ok
        /\ ClosedByParents(last.pre, last.a, last.b)) =>
        \A j \in 0..(last.b - last.a - 1) :
            /\ Get(last.out.ptrs, j) = Get(last.pre, last.a + j) - last.a
            /\ IsRoot(last.out.ptrs, j) = IsRoot(last.pre, last.a + j)

\* A clone of a window above 0 in which some node is not its own root.
C13_Witness ==
    /\ last.op = "subset_clone"
    /\ last.ok
    /\ last.a > 0
    /\ \E j \in DOMAIN last.out.ptrs : Get(last.out.ptrs, j) # j

\* ----- queries

\* find(v) on parent array p: the value returned and the array left behind.
Find(p, v) == GetCompress(p, v)

QueryReturned == last.op \in {"get", "get_compress"} /\ last.ok

\* C14: for every v below capacity, find(v) is a root, and find of that
\* root returns it again: find(find(v)) == find(v).  The same holds of the
\* value the last get / get_compress returned.
C14_FindIdempotent ==
    /\ \A v \in DOMAIN ptrs :
          LET f1 == Find(ptrs, v)
              f2 == Find(f1.ptrs, f1.ret)
          IN  /\ f2.ret = f1.ret
              /\ IsRoot(f1.ptrs, f1.ret)
              /\ Get(ptrs, Get(ptrs, v)) = Get(ptrs, v)
    /\ QueryReturned =>
          /\ IsRoot(ptrs, last.ret)
          /\ Find(ptrs, last.ret).ret = last.ret

\* A get_compress of a node two steps below its root has returned.
C14_Witness ==
    /\ last.op = "get_compress"
    /\ last.ok
    /\ last.ret # last.a
    /\ last.pre[last.a] # last.ret

\* ----- narrow index type

\* The value each call stores is the index it computed, not that index cut
\* to the width of u32: new and extend_by store i in slot i, get_compress
\* stores the root it returns, and set stores the root of its second
\* argument in the root of its first.
StoredUntruncated ==
    /\ last.op = "new" /\ last.ok =>
          \A i \in DOMAIN ptrs : ptrs[i] = i
    /\ ExtendReturned =>
          \A i \in Capacity(last.pre)..(Capacity(ptrs) - 1) : ptrs[i] = i
    /\ last.op = "get_compress" /\ last.ok => ptrs[last.a] = last.ret
    /\ SetReturned => ptrs[Get(last.pre, last.a)] = Get(last.pre, last.b)

\* C15: in the u32 forest, new_u32(len) fails when len is not below
\* u32::MAX, extend_by(n) fails when capacity + n is not below u32::MAX and
\* then leaves capacity, len and the parent array as they were, and every
\* stored parent value is the untruncated index: the capacity stays below
\* u32::MAX and every slot holds an index of the array.
C15_NarrowIndexGuarded ==
    (kind = "u32") =>
        /\ (last.op = "new" /\ last.a >= U32_MAX) => ~last.ok
        /\ (last.op = "extend_by" /\ Capacity(last.pre) + last.a >= U32_MAX) =>
              (~last.ok /\ ptrs = last.pre /\ len = last.prelen)
        /\ Capacity(ptrs) < U32_MAX
        /\ \A i \in DOMAIN ptrs : ptrs[i] \in DOMAIN ptrs
        /\ StoredUntruncated

\* An extend_by refused on a u32 forest that holds a merged pair.
C15_Witness ==
    /\ kind = "u32"
    /\ last.op = "extend_by"
    /\ ~last.ok
    /\ last.a >= 1
    /\ \E i \in DOMAIN ptrs : ptrs[i] # i

\* ----- borrowed view

\* The local indices the view's is_root reports as roots.
ViewRootsReported ==
    {j \in 0..(view.e - view.s - 1) : BIsRoot(ptrs, view.s, view.e, j)}

\* C16: through a view over [s, e), is_root(j) is true exactly when the
\* owner's slot s + j points to itself and the view's get(j) is j, and the
\* number of local j with is_root(j) is the view's curr_len.
C16_ViewIsRootExact ==
    view.active =>
        /\ last.op = "view_is_root" =>
              ((last.ret = 1) <=>
                  /\ IsRoot(ptrs, view.s + last.a)
                  /\ BGet(ptrs, view.s, view.e, last.a) = last.a)
        /\ Cardinality(ViewRootsReported) = view.own_len

ViewCalls == {"view_get", "view_get_compress", "view_set"}

\* The last call on the view did what the same call on the owner does with
\* the indices moved up by s: result (minus s), parent array and len.
ViewAsOwner ==
    LET s == view.s
    IN  /\ last.op = "view_get" =>
              /\ last.ok
              /\ last.ret = Get(last.pre, s + last.a) - s
              /\ ptrs = last.pre /\ len = last.prelen
        /\ last.op = "view_get_compress" =>
              LET r == GetCompress(last.pre, s + last.a)
              IN  /\ last.ok
                  /\ last.ret = r.ret - s
                  /\ ptrs = r.ptrs /\ len = last.prelen
        /\ last.op = "view_set" =>
              LET r == SetFn(last.pre, last.prelen, s + last.a, s + last.b, debug)
              IN  /\ last.ok = r.ok
                  /\ ptrs = r.ptrs /\ len = r.len

\* No slot outside the window differs from what it held before the call.
OutsideUntouched ==
    \A i \in DOMAIN ptrs : i \notin view.s..(view.e - 1) => ptrs[i] = last.pre[i]

\* C17 as stated: over a window closed in the spec's sense (every element's
\* root inside it), a get, get_compress or set on the view is the same call
\* on the owner with indices moved up by s, and writes no slot outside the
\* window.
C17_ViewRefinesOwner ==
    (view.active /\ last.op \in ViewCalls
        /\ ClosedByRoots(last.pre, view.s, view.e)) =>
        (ViewAsOwner /\ OutsideUntouched)

\* C17 as amended: the same over a window in which every element's parent
\* lies inside the window; each call leaves the window so.
C17_ViewRefinesOwnerParentClosed ==
    (view.active /\ last.op \in ViewCalls
        /\ ClosedByParents(last.pre, view.s, view.e)) =>
        /\ ViewAsOwner
        /\ OutsideUntouched
        /\ ClosedByParents(ptrs, view.s, view.e)

\* A get_compress through a view that starts above 0, of a node that is not
\* a root.
C17_Witness ==
    /\ view.active
    /\ view.s > 0
    /\ last.op = "view_get_compress"
    /\ last.ok
    /\ last.ret # last.a
    /\ ClosedByParents(last.pre, view.s, view.e)

\* ----- frame of set, compress and the queries

\* The slots whose value differs from the one held before the last call.
ChangedSlots == {i \in DOMAIN last.pre : i \in DOMAIN ptrs /\ ptrs[i] # last.pre[i]}

SetInRange ==
    /\ last.op = "set"
    /\ last.a < Capacity(last.pre)
    /\ last.b < Capacity(last.pre)

\* C18 as stated: a set(v, to) with both indices below capacity changes at
\* most two slots of the parent array, and len by at most one.
C18_SetChangesTwoSlots ==
    SetInRange =>
        /\ last.ok
        /\ Cardinality(ChangedSlots) <= 2
        /\ len \in {last.prelen, last.prelen - 1}
        /\ Capacity(ptrs) = Capacity(last.pre)

\* C18 as amended: a set(v, to) with both indices below capacity changes
\* no slot other than those of to, of v and of the root v had before the
\* call (at most three), and len by at most one.
C18_SetChangesThreeSlots ==
    SetInRange =>
        /\ last.ok
        /\ ChangedSlots \subseteq {last.b, last.a, Get(last.pre, last.a)}
        /\ len \in {last.prelen, last.prelen - 1}
        /\ Capacity(ptrs) = Capacity(last.pre)

\* A set that changed three slots: both arguments were two steps below the
\* roots of different trees.
C18_Witness ==
    /\ SetInRange
    /\ last.ok
    /\ Cardinality(ChangedSlots) = 3

\* The roots of parent array p.
Roots(p) == {i \in DOMAIN p : IsRoot(p, i)}

\* C19: after compress(), every index below capacity points directly at
\* its root, and the root of every index, the set of roots and len are what
\* they were before the sweep.
C19_CompressFlattens ==
    (last.op = "compress") =>
        /\ last.ok
        /\ DOMAIN ptrs = DOMAIN last.pre
        /\ \A i \in DOMAIN ptrs :
              /\ ptrs[ptrs[i]] = ptrs[i]
              /\ Get(ptrs, i) = Get(last.pre, i)
        /\ Roots(ptrs) = Roots(last.pre)
        /\ len = last.prelen

\* A compress of a forest in which a node was two steps below its root.
C19_Witness ==
    /\ last.op = "compress"
    /\ last.ok
    /\ HasChain(last.pre)
    /\ ptrs # last.pre

\* C20: get(v) changes nothing; get_compress(v) returns what get(v)
\* returns, stores that root in slot v and changes no other slot (the
\* nodes between v and the root included), no node's root, and not len.
C20_QueryFrame ==
    /\ (last.op = "get" /\ last.ok) =>
          /\ last.ret = Get(last.pre, last.a)
          /\ ptrs = last.pre
          /\ len = last.prelen
    /\ (last.op = "get_compress" /\ last.ok) =>
          /\ last.ret = Get(last.pre, last.a)
          /\ ptrs[last.a] = last.ret
          /\ ChangedSlots \subseteq {last.a}
          /\ DOMAIN ptrs = DOMAIN last.pre
          /\ \A i \in DOMAIN ptrs : Get(ptrs, i) = Get(last.pre, i)
          /\ len = last.prelen

\* A get_compress of a node three steps below its root: its parent is left
\* two steps below.
C20_Witness ==
    /\ last.op = "get_compress"
    /\ last.ok
    /\ LET par == last.pre[last.a]
       IN  /\ par # last.a
           /\ last.pre[par] # par
           /\ last.pre[par] # last.ret
           /\ ptrs[par] = last.pre[par]

====
